---- MODULE Spec2Model ----
(***************************************************************************)
(* A model of the LoL Analyzer API (src/main.py): the retrying GET, the    *)
(* four Riot client operations, the match-reference resolver               *)
(* (extract_match_id), the metrics engine (compute_player_metrics), the    *)
(* timeline analyzer (summarize_timeline) and the two endpoints            *)
(* (/resolve, /analizar).                                                  *)
(*                                                                         *)
(* Strings are sequences of tokens.  A one-character token stands for a    *)
(* character of its class ("A","B": uppercase letters; "1","2": digits;    *)
(* "x": a lowercase letter; "_", "-", "/", " ": themselves).  A longer     *)
(* token ("https:", "op.gg", "lol", ...) stands for that literal run of    *)
(* lowercase letters and punctuation.                                      *)
(*                                                                         *)
(* Python's None is the empty tuple and a present value v is <<v>>.        *)
(***************************************************************************)
EXTENDS Integers, Sequences, FiniteSets, TLC

None == <<>>
Some(v) == <<v>>
IsNone(o) == o = <<>>
Val(o) == o[1]

\* ------------------------------------------------------------------ bounds
\* Longest raw (non-URL) input string that is enumerated.
MaxLen == 4
\* Longest recent-match-id list the provider returns.
MaxIds == 2
\* Number of participants of a match document in the metrics specification.
NumParts == 3
\* Longest list of frames of a timeline in the timeline specification.
MaxFrames == 2

\* ------------------------------------------------------- program constants
\* _retry_get's default number of additional attempts.
retries == 2

\* ----------------------------------------------------------------- strings
Upper == {"A", "B"}
Digit == {"1", "2"}
RawAlphabet == {"A", "1", "2", "_"}

RECURSIVE SeqsUpTo(_, _)
SeqsUpTo(S, n) ==
    IF n = 0 THEN {<<>>}
    ELSE LET shorter == SeqsUpTo(S, n - 1)
         IN shorter \cup {Append(s, c) : s \in {t \in shorter : Len(t) = n - 1}, c \in S}

\* s[a..b], empty when a > b
Slice(s, a, b) == IF a > b THEN <<>> ELSE SubSeq(s, a, b)

\* str.strip()
Strip(s) ==
    LET keep == {i \in 1..Len(s) : s[i] # " "}
    IN IF keep = {} THEN <<>>
       ELSE LET lo == CHOOSE i \in keep : \A j \in keep : i <= j
                hi == CHOOSE i \in keep : \A j \in keep : j <= i
            IN SubSeq(s, lo, hi)

\* needle in hay (contiguous run of tokens)
Contains(hay, needle) ==
    \E i \in 0..(Len(hay) - Len(needle)) :
        \A j \in 1..Len(needle) : hay[i + j] = needle[j]

\* The end of the match of [A-Z]+1_\d+ beginning at position i of s, or 0.
\* [A-Z]+ must take the whole run of uppercase letters from i (the next
\* character has to be the digit 1) and \d+ is greedy.
MatchEndAt(s, i) ==
    IF i > Len(s) \/ s[i] \notin Upper THEN 0
    ELSE LET u == CHOOSE j \in i..Len(s) :
                      /\ \A k \in i..j : s[k] \in Upper
                      /\ (j = Len(s) \/ s[j + 1] \notin Upper)
         IN IF u + 3 > Len(s) \/ s[u + 1] # "1" \/ s[u + 2] # "_" \/ s[u + 3] \notin Digit
            THEN 0
            ELSE CHOOSE e \in (u + 3)..Len(s) :
                      /\ \A k \in (u + 3)..e : s[k] \in Digit
                      /\ (e = Len(s) \/ s[e + 1] \notin Digit)

\* re.fullmatch(r"[A-Z]+1_\d+", s)
re_fullmatch_id(s) == Len(s) > 0 /\ MatchEndAt(s, 1) = Len(s)

\* re.search(r"[A-Z]+1_\d+", s): the leftmost match, or None
re_search_id(s) ==
    LET starts == {i \in 1..Len(s) : MatchEndAt(s, i) > 0}
    IN IF starts = {} THEN None
       ELSE LET i == CHOOSE a \in starts : \A b \in starts : a <= b
            IN Some(SubSeq(s, i, MatchEndAt(s, i)))

\* s.split(sep) for a one-token separator: the pieces, empty ones included
RECURSIVE Split(_, _)
Split(s, sep) ==
    LET at == {i \in 1..Len(s) : s[i] = sep}
    IN IF at = {} THEN <<s>>
       ELSE LET i == CHOOSE a \in at : \A b \in at : a <= b
            IN <<Slice(s, 1, i - 1)>> \o Split(Slice(s, i + 1, Len(s)), sep)

\* sep.join(parts)
RECURSIVE Join(_, _)
Join(parts, sep) ==
    IF Len(parts) = 0 THEN <<>>
    ELSE IF Len(parts) = 1 THEN parts[1]
    ELSE parts[1] \o <<sep>> \o Join(Tail(parts), sep)

\* [x for x in parts if x]
RECURSIVE NonEmpty(_)
NonEmpty(parts) ==
    IF Len(parts) = 0 THEN <<>>
    ELSE (IF parts[1] = <<>> THEN <<>> ELSE <<parts[1]>>) \o NonEmpty(Tail(parts))

\* re.sub(r"\D", "", s)
RECURSIVE OnlyDigits(_)
OnlyDigits(s) ==
    IF Len(s) = 0 THEN <<>>
    ELSE (IF s[1] \in Digit THEN <<s[1]>> ELSE <<>>) \o OnlyDigits(Tail(s))

DigitValue(c) == IF c = "1" THEN 1 ELSE 2

\* int(s) for a string of digits; None stands for the ValueError of int("")
RECURSIVE IntOf(_)
IntOf(s) ==
    IF Len(s) = 0 THEN 0
    ELSE 10 * IntOf(SubSeq(s, 1, Len(s) - 1)) + DigitValue(s[Len(s)])

ParseInt(s) == IF Len(s) = 0 THEN None ELSE Some(IntOf(s))

\* urlparse(s): scheme://netloc/path; without a scheme everything is path
HasScheme(s) == Len(s) >= 3 /\ s[1] = "https:" /\ s[2] = "/" /\ s[3] = "/"
urlparse_netloc(s) ==
    IF ~HasScheme(s) THEN <<>>
    ELSE LET rest == Slice(s, 4, Len(s))
             at == {i \in 1..Len(rest) : rest[i] = "/"}
         IN IF at = {} THEN rest
            ELSE Slice(rest, 1, (CHOOSE a \in at : \A b \in at : a <= b) - 1)
urlparse_path(s) ==
    IF ~HasScheme(s) THEN s
    ELSE Slice(s, 4 + Len(urlparse_netloc(s)), Len(s))

\* ------------------------------------------------- OP.GG URL parsing (149-167)
\* "op.gg" in u.netloc and "/lol/summoners/" in u.path and "/matches/" in u.path
is_opgg_url(s) ==
    /\ Contains(urlparse_netloc(s), <<"op.gg">>)
    /\ Contains(urlparse_path(s), <<"/", "lol", "/", "summoners", "/">>)
    /\ Contains(urlparse_path(s), <<"/", "matches", "/">>)

\* segs = [x for x in u.path.split("/") if x]
url_segs(s) == NonEmpty(Split(urlparse_path(s), "/"))

\* riot_id = segs[3] if len(segs) >= 4 else ""   (0-based index 3)
url_riot_id(s) == IF Len(url_segs(s)) >= 4 THEN url_segs(s)[4] ELSE <<>>

\* A game name cut at the first "-" of the handle instead of the last.
url_game_name_first_sep(s) ==
    LET parts == Split(url_riot_id(s), "-")
    IN IF Len(parts) >= 2 THEN parts[1] ELSE url_riot_id(s)

\* parts = riot_id.split("-"); the name is everything before the last "-"
url_game_name(s) ==
    LET parts == Split(url_riot_id(s), "-")
    IN IF Len(parts) >= 2 THEN Join(SubSeq(parts, 1, Len(parts) - 1), "-")
       ELSE url_riot_id(s)

url_tag_line(s) ==
    LET parts == Split(url_riot_id(s), "-")
    IN IF Len(parts) >= 2 THEN parts[Len(parts)] ELSE <<"EUW">>

\* ts_ms = int(re.sub(r"\D", "", segs[6])) when len(segs) >= 7, None on error
url_ts_ms(s) ==
    IF Len(url_segs(s)) >= 7 THEN ParseInt(OnlyDigits(url_segs(s)[7])) ELSE None


\* Python truthiness of an optional atom (a puuid, a name): None and "" are falsy
Falsy0(o) == o = <<>> \/ o[1] = ""

\* ------------------------------------------------------------ arithmetic
\* Numbers with decimals are kept as integers: a value rounded to 1 decimal
\* is held in tenths, one rounded to 2 decimals in hundredths.

\* round(a / b) for a >= 0, b > 0: Python 3 rounds a half to the even neighbour
RoundDiv(a, b) ==
    LET q == a \div b
        r == a % b
    IN IF 2 * r < b THEN q
       ELSE IF 2 * r > b THEN q + 1
       ELSE IF q % 2 = 0 THEN q ELSE q + 1

\* What a division by zero leaves in place of a value.
ZeroDivisionError == <<-1, -1>>

\* round(scale * a / b): the quotient, or the ZeroDivisionError Python raises
PyDiv(a, b) == IF b = 0 THEN ZeroDivisionError ELSE Some(RoundDiv(a, b))

Abs(n) == IF n < 0 THEN -n ELSE n
Max(a, b) == IF a >= b THEN a ELSE b
Min(a, b) == IF a <= b THEN a ELSE b

RECURSIVE SumOver(_, _)
SumOver(f, S) ==
    IF S = {} THEN 0
    ELSE LET e == CHOOSE e \in S : TRUE IN f[e] + SumOver(f, S \ {e})

\* The least element of a non-empty set of integers.
Least(S) == CHOOSE a \in S : \A b \in S : a <= b

\* ------------------------------------ compute_player_metrics (213-276)
\* A Participant: puuid (None when the key is missing), summonerName, win,
\* teamId, kills, deaths, assists, totalMinionsKilled, neutralMinionsKilled,
\* totalDamageDealtToChampions, teamPosition ("" when empty), lane,
\* timePlayed, kda (challenges.kda in hundredths, None when missing).
Participants(md) == md.participants

\* p.get("teamPosition") or p.get("lane")
lane_of(p) == IF p.teamPosition # "" THEN p.teamPosition ELSE p.lane

\* team = [p for p in parts if p.get("teamId") == team_id], as positions
team_of(md, idx) ==
    {i \in 1..Len(md.participants) : md.participants[i].teamId = md.participants[idx + 1].teamId}

enemy_of(md, idx) ==
    {i \in 1..Len(md.participants) : md.participants[i].teamId # md.participants[idx + 1].teamId}

\* team_kills = sum(p.get("kills", 0) for p in team) or 0
team_kills_of(md, idx) ==
    SumOver([i \in 1..Len(md.participants) |-> md.participants[i].kills], team_of(md, idx))

\* team_dmg = sum(p.get("totalDamageDealtToChampions", 0) for p in team) or 0
team_dmg_of(md, idx) ==
    SumOver([i \in 1..Len(md.participants) |-> md.participants[i].totalDamageDealtToChampions],
            team_of(md, idx))

\* A kill participation computed without looking at the team total.
kill_participation_unguarded(md, idx) ==
    PyDiv(1000 * (md.participants[idx + 1].kills + md.participants[idx + 1].assists),
          team_kills_of(md, idx))

\* kp = round(100.0 * (kills + assists) / team_kills, 1) if team_kills else None
kill_participation_pct(md, idx) ==
    LET me == md.participants[idx + 1]
    IN IF team_kills_of(md, idx) # 0
       THEN PyDiv(1000 * (me.kills + me.assists), team_kills_of(md, idx))
       ELSE None

\* dmg_share = round(100.0 * me_dmg / team_dmg, 1) if team_dmg else None
team_damage_share_pct(md, idx) ==
    LET me == md.participants[idx + 1]
    IN IF team_dmg_of(md, idx) # 0
       THEN PyDiv(1000 * me.totalDamageDealtToChampions, team_dmg_of(md, idx))
       ELSE None

\* dur = info.get("gameDuration") or me.get("timePlayed") or 0
duration_of(md, idx) ==
    IF md.gameDuration # 0 THEN md.gameDuration ELSE md.participants[idx + 1].timePlayed

\* csmin = round(cs / max(1e-9, dur_min), 2) if dur_min else None, dur_min = dur / 60
cs_per_min(md, idx) ==
    LET me == md.participants[idx + 1]
        cs == me.totalMinionsKilled + me.neutralMinionsKilled
    IN IF duration_of(md, idx) # 0 THEN PyDiv(6000 * cs, duration_of(md, idx)) ELSE None

\* kda = chal.get("kda") or round((kills + assists) / max(1, deaths), 2)
kda_of(md, idx) ==
    LET me == md.participants[idx + 1]
    IN IF me.kda # None /\ Val(me.kda) # 0 THEN me.kda
       ELSE PyDiv(100 * (me.kills + me.assists), Max(1, me.deaths))

\* opp: the first enemy whose lane designation equals the target's (239-245),
\* as a position of the participant list; 0 when there is none
opponent_pos(md, idx) ==
    LET lane == lane_of(md.participants[idx + 1])
        hits == {i \in enemy_of(md, idx) : lane_of(md.participants[i]) = lane}
    IN IF hits = {} THEN 0 ELSE Least(hits)

\* opp_idx: the first index whose puuid equals the opponent's (248-253)
opp_idx_of(md, idx) ==
    IF opponent_pos(md, idx) = 0 THEN None
    ELSE LET opp == md.participants[opponent_pos(md, idx)]
             same == {i \in 1..Len(md.participants) : md.participants[i].puuid = opp.puuid}
         IN Some(Least(same) - 1)

compute_player_metrics(md, idx) ==
    LET me == md.participants[idx + 1]
    IN [lane |-> lane_of(me),
        kills |-> me.kills, deaths |-> me.deaths, assists |-> me.assists,
        kda |-> kda_of(md, idx),
        cs |-> me.totalMinionsKilled + me.neutralMinionsKilled,
        cs_per_min |-> cs_per_min(md, idx),
        kill_participation_pct |-> kill_participation_pct(md, idx),
        team_damage_share_pct |-> team_damage_share_pct(md, idx),
        me_idx |-> idx,
        opp_idx |-> opp_idx_of(md, idx)]

\* find_participant_index (198-211): by puuid first, then by summoner name
\* compared in lower case; None when neither is given or found
Lower(name) == IF name = "Ann" THEN "ann" ELSE IF name = "BOB" THEN "bob" ELSE name

find_participant_index(md, puuid, summoner_name) ==
    LET parts == md.participants
        byId == IF Falsy0(puuid) THEN {}
                ELSE {i \in 1..Len(parts) : parts[i].puuid = puuid}
        byName == IF Falsy0(summoner_name) THEN {}
                  ELSE {i \in 1..Len(parts) :
                            Lower(parts[i].summonerName) = Lower(Val(summoner_name))}
    IN IF byId # {} THEN Some(Least(byId) - 1)
       ELSE IF byName # {} THEN Some(Least(byName) - 1)
       ELSE None

\* ---------------------------------------- summarize_timeline (279-425)
\* A TimelineDocument: participants (metadata.participants, the puuids in
\* participant-id order) and frames; a Frame: timestamp, pf (participantFrames,
\* a function from participant ids to [minionsKilled, jungleMinionsKilled,
\* totalGold]; the key str(pid) is held as pid) and events.

\* _minutes: round(ts_ms / 60000.0, 1), in tenths of a minute
minutes_of(ts_ms) == RoundDiv(ts_ms, 6000)

\* A participant id that is the position in the list, counted from 0.
find_pid_zero_based(timeline, puuid) ==
    LET at == {i \in 1..Len(timeline.participants) : Some(timeline.participants[i]) = puuid}
    IN IF at = {} THEN None ELSE Some((CHOOSE a \in at : \A b \in at : a <= b) - 1)

\* _find_pid_from_puuid_timeline: puuids.index(puuid) + 1, None when absent
\* (puuid is a participant's optional puuid, the list holds strings)
find_pid_from_puuid_timeline(timeline, puuid) ==
    LET puuids == timeline.participants
        at == {i \in 1..Len(puuids) : Some(puuids[i]) = puuid}
    IN IF at = {} THEN None ELSE Some(Least(at))

\* A loop that keeps a frame when dt <= best_dt: the latest frame wins a tie.
RECURSIVE closest_from_last(_, _, _, _, _)
closest_from_last(frames, n, target_ms, pid, best) ==
    IF n > Len(frames) THEN best
    ELSE IF pid \notin DOMAIN frames[n].pf
    THEN closest_from_last(frames, n + 1, target_ms, pid, best)
    ELSE LET dt == IF frames[n].timestamp >= target_ms THEN frames[n].timestamp - target_ms
                   ELSE target_ms - frames[n].timestamp
         IN IF best = <<>> \/ dt <= best[1][1]
            THEN closest_from_last(frames, n + 1, target_ms, pid, <<<<dt, n>>>>)
            ELSE closest_from_last(frames, n + 1, target_ms, pid, best)

\* The loop of cs_at_min / gold_at_min (320-328): visit the frames in order,
\* skip those without a snapshot for pid, keep a frame when dt < best_dt.
RECURSIVE closest_from(_, _, _, _, _)
closest_from(frames, n, target_ms, pid, best) ==
    \* best = <<best_dt, frame position>> or None; n = next frame to visit
    IF n > Len(frames) THEN best
    ELSE LET fr == frames[n]
         IN IF pid \notin DOMAIN fr.pf
            THEN closest_from(frames, n + 1, target_ms, pid, best)
            ELSE LET dt == Abs(fr.timestamp - target_ms)
                 IN IF best = None \/ dt < best[1][1]
                    THEN closest_from(frames, n + 1, target_ms, pid, Some(<<dt, n>>))
                    ELSE closest_from(frames, n + 1, target_ms, pid, best)

closest_frame(frames, min_mark, pid) ==
    LET best == closest_from(frames, 1, min_mark * 60000, pid, None)
    IN IF best = None THEN 0 ELSE best[1][2]

\* closest.get(key, 0): a key of a snapshot is None when it is missing
Get0(o) == IF o = None THEN 0 ELSE Val(o)

\* not closest: nothing was kept, or the snapshot kept is the empty dict {}
not_closest(frames, n, pid) ==
    \/ n = 0
    \/ /\ frames[n].pf[pid].minionsKilled = None
       /\ frames[n].pf[pid].jungleMinionsKilled = None
       /\ frames[n].pf[pid].totalGold = None

\* cs_at_min (316-331)
cs_at_min(frames, min_mark, pid) ==
    LET n == closest_frame(frames, min_mark, pid)
    IN IF not_closest(frames, n, pid) THEN None
       ELSE Some(Get0(frames[n].pf[pid].minionsKilled)
                 + Get0(frames[n].pf[pid].jungleMinionsKilled))

\* gold_at_min (333-348)
gold_at_min(frames, min_mark, pid) ==
    LET n == closest_frame(frames, min_mark, pid)
    IN IF not_closest(frames, n, pid) THEN None ELSE Some(Get0(frames[n].pf[pid].totalGold))

\* every frame's events, in frame and event order (377-378)
RECURSIVE AllEvents(_)
AllEvents(frames) ==
    IF Len(frames) = 0 THEN <<>> ELSE Head(frames).events \o AllEvents(Tail(frames))

RECURSIVE StampsOf(_)
StampsOf(events) ==
    IF Len(events) = 0 THEN <<>>
    ELSE <<minutes_of(Head(events).timestamp)>> \o StampsOf(Tail(events))

\* A kill counted for every event the participant is the killer of.
is_kill_of_any_type(ev, pid) == ev.killerId = pid

\* the if / elif / else of lines 383-390
is_kill(ev, pid) == ev.type = "CHAMPION_KILL" /\ ev.killerId = pid
is_death(ev, pid) == ev.type = "CHAMPION_KILL" /\ ev.killerId # pid /\ ev.victimId = pid
is_assist(ev, pid) ==
    /\ ev.type = "CHAMPION_KILL" /\ ev.killerId # pid /\ ev.victimId # pid
    /\ pid \in ev.assistingParticipantIds

EmptySummary ==
    [empty |-> TRUE, cs10_per_min |-> None, cs10_total |-> None, cs10_20_per_min |-> None,
     golddiff10 |-> None, golddiff20 |-> None, kills_at |-> <<>>, deaths_at |-> <<>>,
     assists_count |-> 0]

\* golddiff = gold - og if both are known (364-365)
gold_diff(mine, theirs) ==
    IF mine # None /\ theirs # None THEN Some(Val(mine) - Val(theirs)) ELSE None

\* summarize_timeline after pid = _find_pid_from_puuid_timeline(...)  (304-425)
summarize_from_pid(md, tl, pid, opp_idx) ==
    IF pid = None THEN EmptySummary
    ELSE LET parts == md.participants
             opp_puuid == IF opp_idx = None THEN None ELSE parts[Val(opp_idx) + 1].puuid
             opp_pid == IF Falsy0(opp_puuid) THEN None
                        ELSE find_pid_from_puuid_timeline(tl, opp_puuid)
             frames == tl.frames
             cs10 == cs_at_min(frames, 10, Val(pid))
             cs20 == cs_at_min(frames, 20, Val(pid))
             gold10 == gold_at_min(frames, 10, Val(pid))
             gold20 == gold_at_min(frames, 20, Val(pid))
             evs == AllEvents(frames)
         IN [empty |-> FALSE,
             cs10_per_min |-> IF cs10 # None THEN Some(Val(cs10) * 10) ELSE None,
             cs10_total |-> cs10,
             cs10_20_per_min |-> IF cs20 # None /\ cs10 # None
                                 THEN Some((Val(cs20) - Val(cs10)) * 10) ELSE None,
             golddiff10 |-> IF opp_pid = None THEN None
                            ELSE gold_diff(gold10, gold_at_min(frames, 10, Val(opp_pid))),
             golddiff20 |-> IF opp_pid = None THEN None
                            ELSE gold_diff(gold20, gold_at_min(frames, 20, Val(opp_pid))),
             kills_at |-> StampsOf(SelectSeq(evs, LAMBDA ev : is_kill(ev, Val(pid)))),
             deaths_at |-> StampsOf(SelectSeq(evs, LAMBDA ev : is_death(ev, Val(pid)))),
             assists_count |-> Len(SelectSeq(evs, LAMBDA ev : is_assist(ev, Val(pid))))]

\* summarize_timeline(match_data, timeline, me_idx, opp_idx); timeline is None
\* when the fetch found nothing.  The objective logs (dragons, heralds, barons,
\* plates, towers) are lists built beside these fields and read by nothing here.
summarize_timeline(md, timeline, me_idx, opp_idx) ==
    IF timeline = None THEN EmptySummary
    ELSE summarize_from_pid(md, Val(timeline),
                            find_pid_from_puuid_timeline(Val(timeline),
                                                         md.participants[me_idx + 1].puuid),
                            opp_idx)

\* ------------------------------------------------------ provider payloads
\* Statuses the provider answers with: success, not found, rate limited.
Statuses == {200, 404, 429}

M1 == <<"A", "1", "_", "1">>
M2 == <<"A", "1", "_", "2">>
M3 == <<"B", "1", "_", "1">>
AllIds == <<M1, M2, M3, <<"B", "1", "_", "2">>, <<"A", "B", "1", "_", "1">>>>

\* The recent-match-id lists the provider may return (most recent first).
IdsLists == {SubSeq(AllIds, 1, n) : n \in 0..MaxIds}

\* gameStartTimestamp of a match document: absent, or a time in ms.
StartOpts == {None, Some(0), Some(1), Some(4)}

PuuidPayloads == {"p1", "p9"}

Participant(puuid, name, win, team, kills, deaths, assists, minions, dmg, pos, kda) ==
    [puuid |-> puuid, summonerName |-> name, win |-> win, teamId |-> team,
     kills |-> kills, deaths |-> deaths, assists |-> assists,
     totalMinionsKilled |-> minions, neutralMinionsKilled |-> 1,
     totalDamageDealtToChampions |-> dmg, teamPosition |-> pos, lane |-> "NONE",
     timePlayed |-> 0, kda |-> kda]

\* Two participant lists the provider serves in the request specification: one
\* with kills, damage and a winner, one with none of them.
PartsA ==
    <<Participant(Some("p1"), "bob", FALSE, 100, 2, 0, 1, 30, 50, "TOP", None),
      Participant(Some("p2"), "Ann", TRUE, 200, 1, 2, 0, 20, 70, "TOP", Some(150))>>
PartsB ==
    <<Participant(Some("p2"), "Ann", FALSE, 100, 0, 3, 0, 10, 0, "TOP", None),
      Participant(Some("p1"), "bob", FALSE, 200, 0, 0, 0, 10, 0, "JUNGLE", None)>>

MatchDocs ==
    {[gameStartTimestamp |-> st, gameDuration |-> 120, participants |-> PartsA] : st \in StartOpts}
    \cup {[gameStartTimestamp |-> None, gameDuration |-> 0, participants |-> PartsB]}

Snapshot(minions, gold) ==
    [minionsKilled |-> Some(minions), jungleMinionsKilled |-> Some(1), totalGold |-> Some(gold)]
Kill(ts, killer, victim, assists) ==
    [type |-> "CHAMPION_KILL", timestamp |-> ts, killerId |-> killer, victimId |-> victim,
     assistingParticipantIds |-> assists]

\* Timelines the provider serves in the request specification: one that lists
\* both players, one that lists neither.
TimelineDocs ==
    {[participants |-> <<"p1", "p2">>,
      frames |-> <<[timestamp |-> 0, pf |-> (1 :> Snapshot(0, 0) @@ 2 :> Snapshot(0, 0)),
                    events |-> <<>>],
                   [timestamp |-> 600100, pf |-> (1 :> Snapshot(70, 3000) @@ 2 :> Snapshot(60, 3400)),
                    events |-> <<Kill(480000, 1, 2, {})>>],
                   [timestamp |-> 1200050, pf |-> (1 :> Snapshot(150, 7000)),
                    events |-> <<Kill(900000, 2, 1, {})>>]>>],
     [participants |-> <<"p7", "p8">>, frames |-> <<>>]}

\* ------------------------------------------------------------------- state
VARIABLES
    RIOT_TOKEN,   \* whether RIOT_API_KEY is set (line 9)
    OPENAI_KEY,   \* whether OPENAI_API_KEY is set (line 10)
    entry,        \* the operation the caller invoked
    req,          \* its arguments
    pc,           \* position of the request's single thread of control
    stack,        \* return addresses of the calls in progress
    ret,          \* value returned by the call that last returned
    exc,          \* the exception in flight or last raised, None if none
    result,       \* the HTTP response of an endpoint, None until it answers
    log,          \* provider operations called so far: [ep, a] per _retry_get call
    g,            \* _retry_get's locals (kind of payload, i, requests issued, statuses
                  \* received), kept until its caller resumes
    httpIssued,   \* whether any HTTP request went out to the provider
    arg,          \* arguments of the client operation being called
    x,            \* extract_match_id's locals, kept until analizar resumes
    an,           \* analizar's locals
    cause         \* which return statement produced a failure (for the claims)

vars == <<RIOT_TOKEN, OPENAI_KEY, entry, req, pc, stack, ret, exc, result, log, g,
          httpIssued, arg, x, an, cause>>

config == <<RIOT_TOKEN, OPENAI_KEY, entry, req>>

\* ---------------------------------------------------------- call and return
Call(target, back) == pc' = target /\ stack' = <<back>> \o stack

Return(v) ==
    /\ ret' = v
    /\ IF stack = <<>> THEN pc' = "done" /\ stack' = stack
       ELSE pc' = Head(stack) /\ stack' = Tail(stack)

\* raise HTTPException(status, detail) / return a body, at the top of an endpoint
Respond(status, detail) ==
    /\ result' = Some([status |-> status, detail |-> detail])
    /\ pc' = "done"

\* Python truthiness of an optional string or list: None, "" and [] are falsy
Falsy(o) == IsNone(o) \/ Val(o) = <<>>

GInit == [kind |-> "none", i |-> 0, n |-> 0, hist |-> <<>>]
XInit == [s |-> <<>>, game_name |-> <<>>, tag_line |-> <<>>, ts_ms |-> None,
          puuid |-> None, ids |-> <<>>, k |-> 0, best_id |-> None,
          best_diff |-> None, cands |-> <<>>]

\* ------------------------------------------------------ _retry_get (66-75)
\* A _retry_get that retries every status but 200.
should_retry_any_failure(status) == status # 200

\* if r.status_code != 429: return r            (line 70)
should_retry(status) == status = 429

\* for i in range(retries + 1)                  (line 68)
last_attempt(i) == i >= retries

Payloads(kind) ==
    CASE kind = "puuid" -> PuuidPayloads
      [] kind = "ids" -> IdsLists
      [] kind = "match" -> MatchDocs
      [] kind = "timeline" -> TimelineDocs
      [] OTHER -> {"ok"}

\* One requests.get that is answered: return the response unless it is a 429
\* with attempts left.
RetryGetResponse ==
    /\ pc = "_retry_get"
    /\ \E st \in Statuses, body \in Payloads(g.kind) :
         LET r == [status |-> st, body |-> IF st = 200 THEN Some(body) ELSE None]
         IN /\ g' = [g EXCEPT !.n = @ + 1, !.hist = Append(@, st),
                              !.i = IF should_retry(st) /\ ~last_attempt(g.i) THEN @ + 1 ELSE @]
            /\ IF should_retry(st) /\ ~last_attempt(g.i)
               THEN UNCHANGED <<pc, stack, ret>>
               ELSE Return(r)
    /\ httpIssued' = TRUE
    /\ UNCHANGED <<config, exc, result, log, arg, x, an, cause>>

\* One requests.get that raises (timeout, connection error): nothing catches it here.
RetryGetRaise ==
    /\ pc = "_retry_get"
    /\ g' = [g EXCEPT !.n = @ + 1]
    /\ httpIssued' = TRUE
    /\ exc' = Some("Transport")
    /\ pc' = "raise"
    /\ UNCHANGED <<config, stack, ret, result, log, arg, x, an, cause>>


\* An exception unwinding the calls in progress.  The try of extract_match_id
\* (149-193) covers its three calls; nothing else on the stack catches.  Out
\* of an endpoint FastAPI answers 500; out of a function called directly the
\* exception reaches the caller.
TryLabels == {"x_puuid", "x_ids", "x_cand"}
Endpoints == {"resolve_match_ids", "analizar"}

Propagate ==
    /\ pc = "raise"
    /\ \/ /\ stack = <<>>
          /\ pc' = "done"
          /\ result' = IF entry \in Endpoints
                       THEN Some([status |-> 500, detail |-> "Internal Server Error"])
                       ELSE result
          /\ UNCHANGED stack
       \/ /\ stack # <<>> /\ Head(stack) \in TryLabels
          /\ pc' = "x_except"
          /\ stack' = Tail(stack)
          /\ UNCHANGED result
       \/ /\ stack # <<>> /\ Head(stack) \notin TryLabels
          /\ stack' = Tail(stack)
          /\ UNCHANGED <<pc, result>>
    /\ UNCHANGED <<config, ret, exc, log, g, httpIssued, arg, x, an, cause>>

\* ------------------------------------------------ the client (77-126)
\* What a client operation returns when there is nothing to return.
NotFound == None

\* A client that never looks at the credential.
token_check_skipped == TRUE

\* if not RIOT_TOKEN: return None       (79-80, 95-96, 106-107, 118-119)
has_riot_token == RIOT_TOKEN
not_configured_result == None

StartGet(kind, ep, a) ==
    /\ g' = [GInit EXCEPT !.kind = kind]
    /\ log' = Append(log, [ep |-> ep, a |-> a])

\* riot_get_puuid up to its first GET: account-v1 by Riot ID
RiotGetPuuid ==
    /\ pc = "riot_get_puuid"
    /\ IF ~has_riot_token
       THEN Return(not_configured_result) /\ UNCHANGED <<g, log>>
       ELSE /\ StartGet("puuid", "account/by-riot-id", <<arg.game_name, arg.tag_line>>)
            /\ Call("_retry_get", "puuid_r1")
            /\ UNCHANGED ret
    /\ UNCHANGED <<config, exc, result, httpIssued, arg, x, an, cause>>

\* A riot_get_puuid that gives up after account-v1.
RiotGetPuuidNoFallback ==
    /\ pc = "puuid_r1"
    /\ Return(IF ret.status = 200 THEN ret.body ELSE None)
    /\ g' = [kind |-> "none", i |-> 0, n |-> 0, hist |-> <<>>]
    /\ UNCHANGED <<config, exc, result, log, httpIssued, arg, x, an, cause>>

\* r1 is back: return its puuid on 200, else GET summoner-v4 by name
RiotGetPuuidFallback ==
    /\ pc = "puuid_r1"
    /\ IF ret.status = 200
       THEN Return(ret.body) /\ g' = GInit /\ UNCHANGED log
       ELSE /\ StartGet("puuid", "summoner/by-name", <<arg.game_name>>)
            /\ Call("_retry_get", "puuid_r2")
            /\ UNCHANGED ret
    /\ UNCHANGED <<config, exc, result, httpIssued, arg, x, an, cause>>

\* r2 is back: its puuid on 200, else None
RiotGetPuuidEnd ==
    /\ pc = "puuid_r2"
    /\ Return(IF ret.status = 200 THEN ret.body ELSE NotFound)
    /\ g' = GInit
    /\ UNCHANGED <<config, exc, result, log, httpIssued, arg, x, an, cause>>

\* riot_get_recent_match_ids, riot_get_match, riot_get_timeline up to the GET
ClientOps ==
    {[op |-> "riot_get_recent_match_ids", kind |-> "ids", ep |-> "match/ids", back |-> "client_r"],
     [op |-> "riot_get_match", kind |-> "match", ep |-> "match", back |-> "client_r"],
     [op |-> "riot_get_timeline", kind |-> "timeline", ep |-> "timeline", back |-> "client_r"]}

ClientArgs(op) ==
    IF op = "riot_get_recent_match_ids" THEN <<arg.puuid, arg.count>> ELSE <<arg.match_id>>

RiotGet ==
    /\ \E c \in ClientOps :
         /\ pc = c.op
         /\ IF ~has_riot_token
            THEN Return(not_configured_result) /\ UNCHANGED <<g, log>>
            ELSE /\ StartGet(c.kind, c.ep, ClientArgs(c.op))
                 /\ Call("_retry_get", c.back)
                 /\ UNCHANGED ret
    /\ UNCHANGED <<config, exc, result, httpIssued, arg, x, an, cause>>

\* the GET is back: r.json() on 200, else None
RiotGetEnd ==
    /\ pc = "client_r"
    /\ Return(IF ret.status = 200 THEN ret.body ELSE NotFound)
    /\ g' = GInit
    /\ UNCHANGED <<config, exc, result, log, httpIssued, arg, x, an, cause>>


\* ------------------------------------------ extract_match_id (129-195)
\* extract_match_id up to its first call: the two regular expressions, then
\* the OP.GG parse.  Anything that is neither returns None at line 195.
ExtractMatchId ==
    /\ pc = "extract_match_id"
    /\ LET s == Strip(arg.input_str)
       IN IF re_fullmatch_id(s)
          THEN Return(Some(s)) /\ UNCHANGED <<x, arg, cause>>
          ELSE IF re_search_id(s) # None
          THEN Return(re_search_id(s)) /\ UNCHANGED <<x, arg, cause>>
          ELSE IF is_opgg_url(s)
          THEN /\ x' = [XInit EXCEPT !.s = s, !.game_name = url_game_name(s),
                                     !.tag_line = url_tag_line(s), !.ts_ms = url_ts_ms(s)]
               /\ arg' = [game_name |-> url_game_name(s), tag_line |-> url_tag_line(s)]
               /\ Call("riot_get_puuid", "x_puuid")
               /\ UNCHANGED <<ret, cause>>
          ELSE /\ Return(None)
               /\ cause' = "UnrecognizedReference"
               /\ UNCHANGED <<x, arg>>
    /\ UNCHANGED <<config, exc, result, log, g, httpIssued, an>>

\* puuid is back (169-173): None unless it is there, else list 20 recent ids
ExtractPuuid ==
    /\ pc = "x_puuid"
    /\ IF Falsy0(ret)
       THEN /\ Return(None)
            /\ cause' = "IdentityNotFound"
            /\ UNCHANGED <<x, arg>>
       ELSE /\ x' = [x EXCEPT !.puuid = ret]
            /\ arg' = [puuid |-> Val(ret), count |-> 20]
            /\ Call("riot_get_recent_match_ids", "x_ids")
            /\ UNCHANGED <<ret, cause>>
    /\ UNCHANGED <<config, exc, result, log, g, httpIssued, an>>

\* ids are back (173-181): None when empty, ids[0] without a timestamp, else
\* start the loop over the candidates
ExtractIds ==
    /\ pc = "x_ids"
    /\ IF Falsy(ret)
       THEN /\ Return(None)
            /\ cause' = "NoRecentMatches"
            /\ UNCHANGED x
       ELSE IF x.ts_ms = None
       THEN /\ Return(Some(Val(ret)[1]))
            /\ x' = [x EXCEPT !.ids = Val(ret)]
            /\ UNCHANGED cause
       ELSE /\ x' = [x EXCEPT !.ids = Val(ret), !.k = 1]
            /\ pc' = "x_loop"
            /\ UNCHANGED <<stack, ret, cause>>
    /\ UNCHANGED <<config, exc, result, log, g, httpIssued, arg, an>>

\* for mid in ids: md = riot_get_match(mid); after the last one return best_id
ExtractLoop ==
    /\ pc = "x_loop"
    /\ IF x.k > Len(x.ids)
       THEN /\ Return(x.best_id)
            /\ cause' = IF x.best_id = None THEN "NoMatchingTimestamp" ELSE cause
            /\ UNCHANGED arg
       ELSE /\ arg' = [match_id |-> x.ids[x.k]]
            /\ Call("riot_get_match", "x_cand")
            /\ UNCHANGED <<ret, cause>>
    /\ UNCHANGED <<config, exc, result, log, g, httpIssued, x, an>>

\* start = md.get("info", {}).get("gameStartTimestamp") if md else None
start_of(md) == IF md = None THEN None ELSE Val(md).gameStartTimestamp

\* A comparison turned around: the farthest candidate wins.
farther(diff, best_diff) == best_diff = None \/ diff > Val(best_diff)

\* if best_diff is None or diff < best_diff            (line 188)
better(diff, best_diff) == best_diff = None \/ diff < Val(best_diff)

\* the candidate's document is back (184-190)
ExtractCandidate ==
    /\ pc = "x_cand"
    /\ LET start == start_of(ret)
           mid == x.ids[x.k]
           seen == Append(x.cands, [id |-> mid, start |-> start])
       IN IF start = None
          THEN x' = [x EXCEPT !.k = @ + 1, !.cands = seen]
          ELSE LET diff == Abs(Val(start) - Val(x.ts_ms))
               IN IF better(diff, x.best_diff)
                  THEN x' = [x EXCEPT !.k = @ + 1, !.cands = seen,
                                      !.best_diff = Some(diff), !.best_id = Some(mid)]
                  ELSE x' = [x EXCEPT !.k = @ + 1, !.cands = seen]
    /\ pc' = "x_loop"
    /\ UNCHANGED <<config, stack, ret, exc, result, log, g, httpIssued, arg, an, cause>>

\* except Exception as e: print(...), then the return None of line 195
ExtractExcept ==
    /\ pc = "x_except"
    /\ exc' = None
    /\ cause' = "TransportError"
    /\ Return(None)
    /\ UNCHANGED <<config, result, log, g, httpIssued, arg, x, an>>

\* ---------------------------------------------- POST /resolve (547-557)
clamp_count(count) == Max(1, Min(100, count))

ResolveMatchIds ==
    /\ pc = "resolve_match_ids"
    /\ IF ~RIOT_TOKEN
       THEN /\ Respond(500, "RIOT_API_KEY non configurata.")
            /\ UNCHANGED <<stack, arg>>
       ELSE /\ arg' = [game_name |-> req.game_name, tag_line |-> req.tag_line]
            /\ Call("riot_get_puuid", "rs_puuid")
            /\ UNCHANGED result
    /\ UNCHANGED <<config, ret, exc, log, g, httpIssued, x, an, cause>>

ResolvePuuid ==
    /\ pc = "rs_puuid"
    /\ IF Falsy0(ret)
       THEN /\ Respond(404, "Non ho trovato il PUUID")
            /\ UNCHANGED <<stack, arg>>
       ELSE /\ arg' = [puuid |-> Val(ret), count |-> clamp_count(req.count)]
            /\ Call("riot_get_recent_match_ids", "rs_ids")
            /\ UNCHANGED result
    /\ UNCHANGED <<config, ret, exc, log, g, httpIssued, x, an, cause>>

ResolveIds ==
    /\ pc = "rs_ids"
    /\ IF Falsy(ret)
       THEN Respond(404, "Non sono riuscito a ottenere i match IDs.")
       ELSE Respond(200, "match_ids")
    /\ UNCHANGED <<config, stack, ret, exc, log, g, httpIssued, arg, x, an, cause>>


\* --------------------------------------------- POST /analizar (559-638)
AnInit == [match_id |-> None, match_data |-> None, puuid |-> None, idx |-> None,
           metrics |-> None, timeline_summary |-> None, ai |-> "not called",
           analysis |-> None, ai_error |-> None]

NoText == [kind |-> "none", kda |-> None, cs_per_min |-> None,
           cs10_per_min |-> None, cs10_20_per_min |-> None]

\* What analyze_with_openai_text returned, stripped: a narrative.
Narrative == [NoText EXCEPT !.kind = "narrative"]

\* A timeline summary that is there and not {}               (613, 615)
HasSummary(timeline_summary) == timeline_summary # None /\ ~Val(timeline_summary).empty

\* The "[Senza AI] ..." string of lines 607-617, as the numbers it embeds.
fallback_text(metrics, timeline_summary) ==
    [kind |-> "fallback", kda |-> metrics.kda, cs_per_min |-> metrics.cs_per_min,
     cs10_per_min |-> IF HasSummary(timeline_summary)
                      THEN Val(timeline_summary).cs10_per_min ELSE None,
     cs10_20_per_min |-> IF HasSummary(timeline_summary)
                         THEN Val(timeline_summary).cs10_20_per_min ELSE None]

\* An analysis left as the narrative call left it.
keep_analysis(analysis, metrics, timeline_summary) == analysis

\* if not analysis: analysis = base                            (605-617)
or_fallback(analysis, metrics, timeline_summary) ==
    IF analysis = None \/ Val(analysis).kind = "empty"
    THEN Some(fallback_text(metrics, timeline_summary))
    ELSE analysis

Analizar ==
    /\ pc = "analizar"
    /\ IF ~RIOT_TOKEN
       THEN /\ Respond(500, "RIOT_API_KEY non configurata.")
            /\ UNCHANGED <<stack, arg>>
       ELSE /\ arg' = [input_str |-> req.match_url]
            /\ Call("extract_match_id", "an_mid")
            /\ UNCHANGED result
    /\ UNCHANGED <<config, ret, exc, log, g, httpIssued, x, an, cause>>

\* raise HTTPException(404, ...), the status of line 572
match_not_found_status == 404

\* raise HTTPException(400, "Non riesco a estrarre il matchId. ...")   (567)
extract_failure_status == 400

\* 1) matchId (565-570)
AnalizarMatchId ==
    /\ pc = "an_mid"
    /\ IF Falsy(ret)
       THEN /\ Respond(extract_failure_status, "Non riesco a estrarre il matchId.")
            /\ UNCHANGED <<stack, arg, an>>
       ELSE /\ an' = [an EXCEPT !.match_id = ret]
            /\ arg' = [match_id |-> Val(ret)]
            /\ Call("riot_get_match", "an_match")
            /\ UNCHANGED result
    /\ x' = XInit
    /\ UNCHANGED <<config, ret, exc, log, g, httpIssued, cause>>

HasRiotId(player) == ~Falsy(player.game_name) /\ ~Falsy(player.tag_line)

\* 2) match data, 3) the player's puuid when a Riot ID came with the request
AnalizarMatch ==
    /\ pc = "an_match"
    /\ IF ret = None
       THEN /\ Respond(404, "Dati della partita non disponibili da Riot.")
            /\ UNCHANGED <<stack, arg, an>>
       ELSE /\ an' = [an EXCEPT !.match_data = ret]
            /\ UNCHANGED result
            /\ IF HasRiotId(req.player)
               THEN /\ arg' = [game_name |-> Val(req.player.game_name),
                               tag_line |-> Val(req.player.tag_line)]
                    /\ Call("riot_get_puuid", "an_puuid")
               ELSE /\ pc' = "an_metrics"
                    /\ UNCHANGED <<stack, arg>>
    /\ UNCHANGED <<config, ret, exc, log, g, httpIssued, x, cause>>

AnalizarPuuid ==
    /\ pc = "an_puuid"
    /\ an' = [an EXCEPT !.puuid = ret]
    /\ pc' = "an_metrics"
    /\ UNCHANGED <<config, stack, ret, exc, result, log, g, httpIssued, arg, x, cause>>

\* winners = [i for i, p in enumerate(parts) if p.get("win")]; winners[0] or 0
default_index(md) ==
    LET winners == {i \in 1..Len(md.participants) : md.participants[i].win}
    IN IF winners = {} THEN 0 ELSE Least(winners) - 1

\* idx (579-586): by puuid, else by summoner name, else the default
target_index(md, puuid, player) ==
    LET summ_name == IF Falsy0(puuid) THEN player.summoner_name ELSE None
        idx == find_participant_index(md, puuid, summ_name)
    IN IF idx = None THEN default_index(md) ELSE Val(idx)

\* 4) metrics, and the timeline fetch when asked for (588-592)
AnalizarMetrics ==
    /\ pc = "an_metrics"
    /\ LET md == Val(an.match_data)
           idx == target_index(md, an.puuid, req.player)
       IN an' = [an EXCEPT !.idx = Some(idx), !.metrics = Some(compute_player_metrics(md, idx))]
    /\ IF req.include_timeline
       THEN /\ arg' = [match_id |-> Val(an.match_id)]
            /\ Call("riot_get_timeline", "an_tl")
       ELSE /\ pc' = "an_ai"
            /\ UNCHANGED <<stack, arg>>
    /\ UNCHANGED <<config, ret, exc, result, log, g, httpIssued, x, cause>>

AnalizarTimeline ==
    /\ pc = "an_tl"
    /\ LET m == Val(an.metrics)
       IN an' = [an EXCEPT !.timeline_summary =
                     Some(summarize_timeline(Val(an.match_data), ret, m.me_idx, m.opp_idx))]
    /\ pc' = "an_ai"
    /\ UNCHANGED <<config, stack, ret, exc, result, log, g, httpIssued, arg, x, cause>>

\* 5) the narrative (595-638): asked for only with use_ai and a key; whatever
\* it raises is caught and kept in ai_error; no text means the fallback
AiOutcomes == {"narrative", "empty", "raise"}

AnalizarAi ==
    /\ pc = "an_ai"
    /\ \E o \in IF req.use_ai /\ OPENAI_KEY THEN AiOutcomes ELSE {"not called"} :
         LET analysis == IF o = "narrative" THEN Some(Narrative)
                         ELSE IF o = "empty" THEN Some([NoText EXCEPT !.kind = "empty"])
                         ELSE None
             text == or_fallback(analysis, Val(an.metrics), an.timeline_summary)
             ai_error == IF o = "raise" THEN Some("error") ELSE None
         IN /\ an' = [an EXCEPT !.ai = o, !.ai_error = ai_error, !.analysis = text]
            /\ ret' = Some([match_id |-> an.match_id, analisis |-> text,
                            ai_error |-> ai_error,
                            timeline_summary |-> an.timeline_summary])
    /\ Respond(200, "ok")
    /\ UNCHANGED <<config, stack, exc, log, g, httpIssued, arg, x, cause>>


\* ---------------------------------- compute_player_metrics called alone
ComputePlayerMetrics ==
    /\ pc = "compute_player_metrics"
    /\ Return(Some(compute_player_metrics(arg.match_data, arg.idx)))
    /\ UNCHANGED <<config, exc, result, log, g, httpIssued, arg, x, an, cause>>

\* ------------------------------ summarize_timeline called alone (292-425)
\* if not timeline: return {}; else pid = _find_pid_from_puuid_timeline(timeline, me_puuid)
SummarizeTimeline ==
    /\ pc = "summarize_timeline"
    /\ IF arg.timeline = None
       THEN Return(Some(EmptySummary)) /\ UNCHANGED arg
       ELSE /\ arg' = [arg EXCEPT !.puuid = arg.match_data.participants[arg.me_idx + 1].puuid]
            /\ Call("_find_pid_from_puuid_timeline", "st_pid")
            /\ UNCHANGED ret
    /\ UNCHANGED <<config, exc, result, log, g, httpIssued, x, an, cause>>

\* _find_pid_from_puuid_timeline (282-290)
FindPidFromPuuidTimeline ==
    /\ pc = "_find_pid_from_puuid_timeline"
    /\ Return(find_pid_from_puuid_timeline(Val(arg.timeline), arg.puuid))
    /\ UNCHANGED <<config, exc, result, log, g, httpIssued, arg, x, an, cause>>

\* pid is back: {} when there is none, else the summary (304-425)
SummarizeTimelinePid ==
    /\ pc = "st_pid"
    /\ arg' = [arg EXCEPT !.pid = ret]
    /\ Return(Some(summarize_from_pid(arg.match_data, Val(arg.timeline), ret, arg.opp_idx)))
    /\ UNCHANGED <<config, exc, result, log, g, httpIssued, x, an, cause>>

\* cs_at_min and gold_at_min applied to a list of frames (316-348)
CsAtMin ==
    /\ pc = "cs_at_min"
    /\ Return(cs_at_min(arg.frames, arg.min_mark, arg.pid))
    /\ UNCHANGED <<config, exc, result, log, g, httpIssued, arg, x, an, cause>>

GoldAtMin ==
    /\ pc = "gold_at_min"
    /\ Return(gold_at_min(arg.frames, arg.min_mark, arg.pid))
    /\ UNCHANGED <<config, exc, result, log, g, httpIssued, arg, x, an, cause>>

\* ------------------------------------------------------------------ inputs
OpggUrl(handle, tail) ==
    <<"https:", "/", "/", "op.gg", "/", "lol", "/", "summoners", "/", "euw", "/">>
        \o handle \o <<"/", "matches", "/">> \o tail

Handles == {<<"x", "-", "2">>, <<"x", "-", "x", "-", "2">>, <<"x">>}

\* after "/matches/": a token; a token and a timestamp (2, and 1 wrapped in
\* letters); a token and a segment without digits
Tails == {<<"x">>, <<"x", "/", "2">>, <<"x", "/", "x", "1", "x">>, <<"x", "/", "x">>}

UrlInputs ==
    {OpggUrl(h, tl) : h \in Handles, tl \in Tails}
    \cup {OpggUrl(<<"x", "-", "2">>, <<>>),
          \* a canonical id inside the handle, and inside the token
          OpggUrl(<<"A", "1", "_", "2", "-", "2">>, <<"x">>),
          OpggUrl(<<"x", "-", "2">>, <<"x", "B", "1", "_", "2">>),
          \* another site; no "/matches/"; no scheme
          <<"https:", "/", "/", "x", "/", "lol", "/", "summoners", "/", "euw", "/", "x", "-", "2",
            "/", "matches", "/", "x">>,
          <<"https:", "/", "/", "op.gg", "/", "lol", "/", "summoners", "/", "euw", "/", "x", "-", "2">>,
          <<"op.gg", "/", "lol", "/", "summoners", "/", "euw", "/", "x", "-", "2", "/", "matches", "/">>}

RawInputs ==
    SeqsUpTo(RawAlphabet, MaxLen)
    \cup {<<" ", "A", "1", "_", "2", " ">>, <<"x", "A", "B", "1", "_", "2", "x">>, <<"x">>}

AnalizarInputs ==
    {M2, <<"A", "2", "_", "1">>, <<"x">>,
     OpggUrl(<<"x", "-", "2">>, <<"x">>), OpggUrl(<<"x", "-", "2">>, <<"x", "/", "2">>)}

Player(game_name, tag_line, summoner_name) ==
    [game_name |-> game_name, tag_line |-> tag_line, summoner_name |-> summoner_name]

\* no player context; a Riot ID; a summoner name in another case; both
Players ==
    {Player(None, None, None),
     Player(Some(<<"x">>), Some(<<"2">>), None),
     Player(None, None, Some("ann")),
     Player(Some(<<"x">>), Some(<<"2">>), Some("BOB"))}

MatchRequest(match_url, use_ai, include_timeline, player) ==
    [match_url |-> match_url, use_ai |-> use_ai, include_timeline |-> include_timeline,
     player |-> player]

\* Requests to /analizar: a match id with every combination of the options,
\* every other input with the defaults (use_ai, include_timeline, no player).
AnalizarRequests ==
    {MatchRequest(M2, use_ai, include_timeline, player) :
         use_ai \in BOOLEAN, include_timeline \in BOOLEAN, player \in Players}
    \cup {MatchRequest(s, TRUE, TRUE, Player(None, None, None)) : s \in AnalizarInputs}

\* Participants of the match documents of the metrics specification.
StatRows ==
    {[kills |-> 0, assists |-> 0, dmg |-> 0], [kills |-> 1, assists |-> 0, dmg |-> 3],
     [kills |-> 0, assists |-> 1, dmg |-> 0], [kills |-> 2, assists |-> 1, dmg |-> 4]}

MetricParticipants ==
    {Participant(Some("p1"), "bob", FALSE, team, r.kills, 1, r.assists, 10, r.dmg, "TOP", None) :
         team \in {100, 200}, r \in StatRows}

RECURSIVE Lists(_, _)
Lists(S, n) ==
    IF n = 0 THEN {<<>>} ELSE {Append(s, e) : s \in Lists(S, n - 1), e \in S}

MetricDocs ==
    {[gameStartTimestamp |-> None, gameDuration |-> 120, participants |-> ps] :
         ps \in Lists(MetricParticipants, NumParts)}

\* Participants of the match documents given to compute_player_metrics to
\* find the lane opponent: two teams, two lanes, puuids present, repeated
\* or missing.
OpponentParticipants ==
    {Participant(puuid, "bob", FALSE, team, 1, 1, 1, 10, 5, pos, None) :
         puuid \in {None, Some("p1"), Some("p2")}, team \in {100, 200},
         pos \in {"TOP", "JUNGLE"}}

OpponentDocs ==
    {[gameStartTimestamp |-> None, gameDuration |-> 120, participants |-> ps] :
         ps \in Lists(OpponentParticipants, NumParts)}

\* Timelines of the timeline specification.  A snapshot without keys:
EmptySnapshot == [minionsKilled |-> None, jungleMinionsKilled |-> None, totalGold |-> None]

\* an event of another type with the same keys
TowerKill(ts, killer) ==
    [type |-> "BUILDING_KILL", timestamp |-> ts, killerId |-> killer, victimId |-> 0,
     assistingParticipantIds |-> {}]

Frame(ts, pf, events) == [timestamp |-> ts, pf |-> pf, events |-> events]

\* Frames at 9:00 and 11:00 (equally far from minute 10), at 10:00, 19:00 and
\* 20:00, with a snapshot for both participant ids, for one, for none, with
\* an empty snapshot and with one that lacks keys; champion kills where the
\* participant ids are killer, victim, assistant, or several of these.
Frames ==
    {Frame(540000, (1 :> Snapshot(50, 2500) @@ 2 :> Snapshot(40, 2000)),
           <<Kill(480000, 1, 2, {})>>),
     Frame(660000, (1 :> Snapshot(70, 3000) @@ 2 :> Snapshot(60, 3400)),
           <<Kill(606000, 2, 1, {}), Kill(612000, 0, 2, {1})>>),
     Frame(600000, (2 :> Snapshot(65, 3100)),
           <<Kill(600000, 1, 1, {}), TowerKill(600000, 1)>>),
     Frame(1200000, (1 :> EmptySnapshot @@ 2 :> Snapshot(150, 7000)),
           <<Kill(1200000, 1, 2, {1}), Kill(1206000, 2, 1, {1})>>),
     Frame(1140000, (1 :> [Snapshot(140, 6800) EXCEPT !.jungleMinionsKilled = None,
                                                      !.totalGold = None]),
           <<>>),
     Frame(0, <<>>, <<Kill(0, 0, 2, {1, 2})>>)}

FrameLists == UNION {Lists(Frames, n) : n \in 0..MaxFrames}

\* metadata.participants of a timeline: the puuids in participant-id order
TimelinePuuids == {<<"p1", "p2">>, <<"p2", "p1">>, <<"p2", "p2">>}

Timelines ==
    {None} \cup {Some([participants |-> ps, frames |-> fs]) :
                    ps \in TimelinePuuids, fs \in FrameLists}

SummaryDocs ==
    {[gameStartTimestamp |-> None, gameDuration |-> 120,
      participants |-> <<Participant(a, "bob", FALSE, 100, 1, 1, 1, 10, 5, "TOP", None),
                         Participant(b, "Ann", TRUE, 200, 1, 1, 1, 10, 5, "TOP", None)>>] :
         a \in {None, Some("p1"), Some("p3")}, b \in {Some("p2")}}

\* ----------------------------------------------------------- specifications
Start(op, a, r) ==
    /\ entry = op /\ pc = op /\ arg = a /\ req = r
    /\ stack = <<>> /\ ret = None /\ exc = None /\ result = None /\ log = <<>>
    /\ g = IF op = "_retry_get" THEN [GInit EXCEPT !.kind = "raw"] ELSE GInit
    /\ httpIssued = FALSE /\ x = XInit /\ an = AnInit /\ cause = ""

NoArg == [none |-> TRUE]

Init ==
    /\ RIOT_TOKEN \in BOOLEAN
    /\ OPENAI_KEY \in BOOLEAN
    /\ \/ OPENAI_KEY /\ RIOT_TOKEN /\ Start("_retry_get", NoArg, NoArg)
       \/ OPENAI_KEY /\ Start("riot_get_puuid", [game_name |-> <<"x">>, tag_line |-> <<"2">>], NoArg)
       \/ OPENAI_KEY /\ Start("riot_get_recent_match_ids", [puuid |-> "p1", count |-> 10], NoArg)
       \/ OPENAI_KEY /\ \E op \in {"riot_get_match", "riot_get_timeline"} :
                            Start(op, [match_id |-> M1], NoArg)
       \/ OPENAI_KEY /\ \E s \in RawInputs \cup UrlInputs :
                            Start("extract_match_id", [input_str |-> s], [input_str |-> s])
       \/ OPENAI_KEY /\ \E count \in {0, 5, 200} :
                            Start("resolve_match_ids", NoArg,
                                  [game_name |-> <<"x">>, tag_line |-> <<"2">>, count |-> count])
       \/ \E r \in AnalizarRequests : Start("analizar", NoArg, r)

Next ==
    \/ RetryGetResponse \/ RetryGetRaise \/ Propagate
    \/ RiotGetPuuid \/ RiotGetPuuidFallback \/ RiotGetPuuidEnd \/ RiotGet \/ RiotGetEnd
    \/ ExtractMatchId \/ ExtractPuuid \/ ExtractIds \/ ExtractLoop \/ ExtractCandidate
    \/ ExtractExcept
    \/ ResolveMatchIds \/ ResolvePuuid \/ ResolveIds
    \/ Analizar \/ AnalizarMatchId \/ AnalizarMatch \/ AnalizarPuuid \/ AnalizarMetrics
    \/ AnalizarTimeline \/ AnalizarAi

Spec == Init /\ [][Next]_vars

\* compute_player_metrics on every match document of MetricDocs and every index
InitMetrics ==
    /\ RIOT_TOKEN = TRUE /\ OPENAI_KEY = TRUE
    /\ \E md \in MetricDocs \cup OpponentDocs, idx \in 0..(NumParts - 1) :
         Start("compute_player_metrics", [match_data |-> md, idx |-> idx], NoArg)

NextMetrics == ComputePlayerMetrics

SpecMetrics == InitMetrics /\ [][NextMetrics]_vars

\* summarize_timeline on every timeline of Timelines, and cs_at_min and
\* gold_at_min on every list of frames, minute mark and participant id
InitTimeline ==
    /\ RIOT_TOKEN = TRUE /\ OPENAI_KEY = TRUE
    /\ \/ \E md \in SummaryDocs, tl \in Timelines, me_idx \in {0, 1},
              opp_idx \in {None, Some(0), Some(1)} :
              Start("summarize_timeline",
                    [match_data |-> md, timeline |-> tl, me_idx |-> me_idx,
                     opp_idx |-> opp_idx, puuid |-> None, pid |-> None], NoArg)
       \/ \E op \in {"cs_at_min", "gold_at_min"}, fs \in FrameLists, m \in {10, 20},
              pid \in 1..3 :
              Start(op, [frames |-> fs, min_mark |-> m, pid |-> pid], NoArg)

NextTimeline ==
    \/ SummarizeTimeline \/ FindPidFromPuuidTimeline \/ SummarizeTimelinePid
    \/ CsAtMin \/ GoldAtMin

SpecTimeline == InitTimeline /\ [][NextTimeline]_vars


\* ================================================================== claims
Last(s) == s[Len(s)]

\* _retry_get has returned a response to its caller, who has not resumed yet
GetReturned ==
    \/ pc \in {"puuid_r1", "puuid_r2", "client_r"}
    \/ entry = "_retry_get" /\ pc = "done" /\ exc = None

RateLimited(h) == \A k \in 1..Len(h) : h[k] = 429

C1_Requests ==
    /\ g.n <= 3
    /\ Len(g.hist) <= g.n
    \* every response before the last one was a 429
    /\ Len(g.hist) > 0 => RateLimited(SubSeq(g.hist, 1, Len(g.hist) - 1))
    \* another request is coming only after nothing but 429s, fewer than 3
    /\ pc = "_retry_get" => RateLimited(g.hist) /\ g.n = Len(g.hist) /\ g.n <= 2
    \* what is returned is the last response: the first non-429 or the third
    /\ GetReturned => /\ Len(g.hist) = g.n /\ g.n >= 1
                      /\ ret.status = Last(g.hist)
                      /\ (ret.status # 429 \/ g.n = 3)

\* Inside _retry_get a step can always be taken, every step issues one more
\* request, and a step that stays inside follows a 429 with attempts left:
\* with at most 3 requests the loop ends after at most 3 steps.
C1_Progress ==
    pc = "_retry_get" =>
        /\ g'.n = g.n + 1
        /\ pc' \in {"_retry_get", "raise", "done", "puuid_r1", "puuid_r2", "client_r"}
        /\ pc' = "_retry_get" => Last(g'.hist) = 429 /\ g'.n <= 2 /\ ret' = ret
        /\ pc' = "raise" => g'.hist = g.hist

C1_NeverStuck == pc = "_retry_get" => ENABLED (RetryGetResponse \/ RetryGetRaise)

\* C1: one _retry_get (retries = 2) re-issues its request only after a 429
\* response, issues at most 3 requests, returns any non-429 response at once,
\* and always ends: it returns the first non-429 response or the third
\* response (or the request raises, which ends it too).
C1_RetryGet == [](C1_Requests /\ C1_NeverStuck) /\ [][C1_Progress]_vars

\* Three 429 responses in a row: the third one is returned.
C1_Witness == GetReturned /\ g.hist = <<429, 429, 429>> /\ ret.status = 429

\* riot_get_puuid has returned to its caller
PuuidReturned ==
    \/ pc \in {"x_puuid", "rs_puuid", "an_puuid"}
    \/ entry = "riot_get_puuid" /\ pc = "done" /\ exc = None

C2_BothAttempted ==
    (PuuidReturned /\ RIOT_TOKEN /\ ret = None) =>
        /\ Len(log) >= 2
        /\ log[Len(log) - 1].ep = "account/by-riot-id"
        /\ Last(log).ep = "summoner/by-name"
        /\ Last(log).a[1] = log[Len(log) - 1].a[1]

C2_Order ==
    \* by-name is called only after by-riot-id came back without success
    /\ (log' # log /\ Last(log').ep = "summoner/by-name") =>
           /\ pc = "puuid_r1" /\ ret.status # 200
           /\ log # <<>> /\ Last(log).ep = "account/by-riot-id"
    \* and never once by-riot-id succeeded: its puuid is returned
    /\ (pc = "puuid_r1" /\ ret.status = 200) =>
           /\ log' = log /\ pc' # "_retry_get" /\ ret' = ret.body

\* Without the credential riot_get_puuid returns no player id at once.
C2_NoCredential == (PuuidReturned /\ ~RIOT_TOKEN) => ret = None /\ log = <<>>

IsCanonical(P) ==
    \E u \in 1..Len(P), d \in 1..Len(P) :
        /\ u < d /\ d + 1 < Len(P)
        /\ \A k \in 1..u : P[k] \in Upper
        /\ \A k \in (u + 1)..d : P[k] \in Digit
        /\ P[d + 1] = "_"
        /\ \A k \in (d + 2)..Len(P) : P[k] \in Digit

\* C3: for every input P of the form <UPPER><digits>_<digits>,
\* extract_match_id(P) returns P unchanged and calls nothing: no identity
\* lookup, no match listing, no match fetch.
C3_CanonicalIdentity ==
    (entry = "extract_match_id" /\ IsCanonical(req.input_str)) =>
        /\ pc \in {"extract_match_id", "done"}
        /\ pc = "done" => ret = Some(req.input_str) /\ log = <<>> /\ ~httpIssued

\* ------------------------------------------------------------------- C4
\* extract_match_id is running (called directly or by analizar)
Resolving ==
    /\ entry \in {"extract_match_id", "analizar"}
    /\ \/ pc \in {"extract_match_id", "x_puuid", "x_ids", "x_loop", "x_cand", "x_except"}
       \/ \E i \in 1..Len(stack) : stack[i] \in TryLabels

ResolveInput == IF entry = "analizar" THEN req.match_url ELSE req.input_str

C4_Names == {<<"x">>, <<"x", "-", "x">>}
C4_Tags == {<<"2">>}
\* after "/matches/": nothing, or a token; no timestamp segment
C4_Tails == {<<>>, <<"x">>}

\* the input is an OP.GG URL with handle name-tag and no timestamp segment
C4_Case(name, tag) ==
    /\ entry \in {"extract_match_id", "analizar"}
    /\ \E tl \in C4_Tails : ResolveInput = OpggUrl(name \o <<"-">> \o tag, tl)

C4_Steps ==
    \A name \in C4_Names, tag \in C4_Tags :
        C4_Case(name, tag) =>
            \* the identity lookup is called with the name and the discriminator
            /\ pc = "extract_match_id" =>
                   /\ pc' = "riot_get_puuid" /\ Head(stack') = "x_puuid"
                   /\ arg' = [game_name |-> name, tag_line |-> tag]
            /\ (log' # log /\ Len(log) = 0) =>
                   Last(log') = [ep |-> "account/by-riot-id", a |-> <<name, tag>>]
            \* the listing is called only once the lookup returned a player id
            /\ (Resolving /\ pc # "riot_get_recent_match_ids"
                          /\ pc' = "riot_get_recent_match_ids") =>
                   /\ pc = "x_puuid" /\ ret \in {Some(p) : p \in PuuidPayloads}
                   /\ arg'.puuid = Val(ret)
            \* the first entry of the list is returned
            /\ pc = "x_ids" =>
                   /\ ret' = IF ret = None \/ Val(ret) = <<>> THEN None ELSE Some(Val(ret)[1])
                   /\ pc' = IF entry = "analizar" THEN "an_mid" ELSE "done"

\* no match detail is fetched while resolving
C4_NoFetch ==
    \A name \in C4_Names, tag \in C4_Tags :
        (C4_Case(name, tag) /\ (Resolving \/ (entry = "extract_match_id" /\ pc = "done"))) =>
            /\ pc \notin {"riot_get_match", "x_loop", "x_cand"}
            /\ \A i \in 1..Len(log) : log[i].ep \in {"account/by-riot-id", "summoner/by-name", "match/ids"}

\* C4: for an OP.GG URL whose handle is "name-1234" (cut at the last "-")
\* and which has no timestamp segment, extract_match_id calls the identity
\* lookup with name and 1234, lists the recent match ids only after the
\* lookup returned a player id, and returns the first id of the list without
\* fetching any match.
C4_HandleNoTimestamp == []C4_NoFetch /\ [][C4_Steps]_vars

\* The handle x-x-2 resolved to the first id of a list of two.
C4_Witness ==
    /\ entry = "extract_match_id" /\ pc = "done"
    /\ req.input_str = OpggUrl(<<"x", "-", "x", "-", "2">>, <<"x">>)
    /\ Len(log) >= 1 /\ log[1].a = <<<<"x", "-", "x">>, <<"2">>>>
    /\ Len(x.ids) = 2 /\ ret = Some(x.ids[1])

\* ------------------------------------------------------------------- C5
C5_Dist(a, b) == IF a >= b THEN a - b ELSE b - a

\* the timestamp the URL carries in its seventh segment
C5_Timestamp ==
    \A h \in Handles :
        /\ ResolveInput = OpggUrl(h, <<"x", "/", "2">>) => x.ts_ms = Some(2)
        /\ ResolveInput = OpggUrl(h, <<"x", "/", "x", "1", "x">>) => x.ts_ms = Some(1)

\* The loop has gone through every id of the list: what it returns next.
C5_Selection ==
    (pc = "x_loop" /\ x.k > Len(x.ids)) =>
        LET n == Len(x.ids)
            T == Val(x.ts_ms)
            usable == {i \in 1..n : x.cands[i].start # None}
        IN /\ x.ts_ms # None /\ C5_Timestamp
           \* every candidate's detail was fetched, in the order of the list
           /\ Len(x.cands) = n /\ Len(log) >= n
           /\ \A i \in 1..n :
                  /\ x.cands[i].id = x.ids[i]
                  /\ log[Len(log) - n + i] = [ep |-> "match", a |-> <<x.ids[i]>>]
           \* the result is a usable candidate nearest to T, or no match id
           /\ IF usable = {} THEN ret' = None
              ELSE \E i \in usable :
                       /\ ret' = Some(x.ids[i])
                       /\ \A j \in usable :
                              C5_Dist(Val(x.cands[i].start), T) <= C5_Dist(Val(x.cands[j].start), T)
           /\ pc' = IF entry = "analizar" THEN "an_mid" ELSE "done"

\* with a timestamp the first id is not returned before the loop
C5_Loop == (pc = "x_ids" /\ x.ts_ms # None /\ ~Falsy(ret)) => pc' = "x_loop" /\ x'.k = 1

\* C5: with a timestamp T from the URL, extract_match_id fetches the detail
\* of every id of the recent-match list and returns one whose
\* |gameStartTimestamp - T| is least among the candidates that have a start
\* time; candidates without detail or start time are never returned; when no
\* candidate has a start time it returns no match id.
C5_NearestStart == [][C5_Selection /\ C5_Loop]_vars

\* T = 2, starts 0 and 1: the second candidate is returned.
C5_Witness ==
    /\ entry = "extract_match_id" /\ pc = "done" /\ x.ts_ms = Some(2)
    /\ Len(x.cands) = 2 /\ x.cands[1].start = Some(0) /\ x.cands[2].start = Some(1)
    /\ ret = Some(x.ids[2])

\* ------------------------------------------------------------------- C6
\* A request of this run raised: it was issued and no response came back.
TransportFailed == g.n > Len(g.hist)

\* C6: a timeout or connection error raised by a provider call during
\* extract_match_id or /analizar reaches the caller as a transport failure of
\* its own (the exception, or the 500 it becomes at the endpoint): the request
\* is not issued again and the failure never comes back as a normal result
\* such as no match id or a 400.
C6_TransportSurfaces ==
    (entry \in {"extract_match_id", "analizar"} /\ TransportFailed) =>
        /\ pc # "_retry_get"
        /\ pc = "done" =>
               IF entry = "analizar"
               THEN result = Some([status |-> 500, detail |-> "Internal Server Error"])
               ELSE exc = Some("Transport")

\* ------------------------------------------------------------------- C7
FourFailures ==
    {"IdentityNotFound", "NoRecentMatches", "NoMatchingTimestamp", "UnrecognizedReference"}

\* what the caller of extract_match_id, or the client of /analizar, gets
ResolveOutcome == IF entry = "analizar" THEN result ELSE ret

\* what the caller gets for an input that matches no known format
UnrecognizedOutcome ==
    IF entry = "analizar"
    THEN Some([status |-> 400, detail |-> "Non riesco a estrarre il matchId."])
    ELSE None

ResolveFailed ==
    /\ entry \in {"extract_match_id", "analizar"} /\ pc = "done" /\ cause \in FourFailures

Answered200 == entry = "analizar" /\ pc = "done" /\ result = Some([status |-> 200, detail |-> "ok"])

C8_Result ==
    Answered200 =>
        LET body == Val(ret)
            text == Val(body.analisis)
        IN /\ body.analisis # None
           /\ text.kind \in {"narrative", "fallback"}
           \* no narrative: the fallback with the computed KDA and CS/min
           /\ (~req.use_ai \/ ~OPENAI_KEY) => an.ai = "not called"
           /\ an.ai \in {"not called", "raise", "empty"} =>
                  /\ text.kind = "fallback"
                  /\ text.kda = Val(an.metrics).kda
                  /\ text.cs_per_min = Val(an.metrics).cs_per_min
                  /\ Val(an.metrics) = compute_player_metrics(Val(an.match_data), Val(an.idx))
           /\ an.ai = "raise" => body.ai_error # None
           \* match_id is the id that was resolved and whose detail was fetched
           /\ body.match_id # None
           /\ req.match_url = M2 => body.match_id = Some(M2)
           /\ \E i \in 1..Len(log) : log[i] = [ep |-> "match", a |-> <<Val(body.match_id)>>]

\* with the match detail in hand, a request that no call raised in succeeds
C8_Succeeds ==
    (entry = "analizar" /\ pc = "done" /\ an.match_data # None /\ exc = None) => Answered200

\* whatever the narrative call does, the step after the metrics answers 200
C8_AiStep == pc = "an_ai" => pc' = "done" /\ result' = Some([status |-> 200, detail |-> "ok"])

\* C8: once the match detail was obtained, /analizar answers with a non-null
\* analysis whatever narrative generation does: disabled, without key, empty
\* or raising, the request succeeds with the numeric fallback that embeds the
\* computed KDA and CS/min; match_id is the resolved match id.
C8_AnalysisAlways == [](C8_Result /\ C8_Succeeds) /\ [][C8_AiStep]_vars

\* The narrative call raised and the fallback carries the KDA 1.5 of the winner.
C8_Witness ==
    /\ Answered200 /\ an.ai = "raise"
    /\ Val(Val(ret).analisis).kind = "fallback"
    /\ Val(Val(ret).analisis).kda = Some(150)

\* ------------------------------------------------------------------- C9
ClientEntries ==
    {"riot_get_puuid", "riot_get_recent_match_ids", "riot_get_match", "riot_get_timeline"}

NotConfigured == Some([status |-> 500, detail |-> "RIOT_API_KEY non configurata."])

\* C9 as stated: without the credential every dependent operation fails
\* with a "not configured" error that is not its not-found result, and no
\* HTTP request is issued.
C9_NotConfiguredDistinct ==
    ~RIOT_TOKEN =>
        /\ ~httpIssued
        /\ (pc = "done" /\ entry \in Endpoints) => result = NotConfigured
        /\ (pc = "done" /\ entry \in ClientEntries) => ret # NotFound

\* C9 (amended): without the credential no HTTP request is ever issued and
\* no provider endpoint is called; /resolve and /analizar fail at once with
\* the 500 "RIOT_API_KEY non configurata.", which none of their other
\* answers is; the four client operations return None, the value they also
\* return for not-found.
C9_NoRequestWithoutCredential ==
    /\ ~RIOT_TOKEN =>
           /\ ~httpIssued /\ log = <<>> /\ pc # "_retry_get"
           /\ (pc = "done" /\ entry \in Endpoints) => result = NotConfigured /\ stack = <<>>
           /\ (pc = "done" /\ entry \in ClientEntries) => ret = NotFound /\ exc = None
    /\ (RIOT_TOKEN /\ pc = "done" /\ entry \in Endpoints) => result # NotConfigured

\* riot_get_match called without the credential returned None.
C9_Witness ==
    /\ ~RIOT_TOKEN /\ entry = "riot_get_match" /\ pc = "done" /\ ret = None /\ ~httpIssued

\* ------------------------------------------------------------------ C10
\* the target's team and its totals, summed from the participants
C10_Team == {i \in 1..NumParts : arg.match_data.participants[i].teamId
                                     = arg.match_data.participants[arg.idx + 1].teamId}

RECURSIVE C10_Total(_, _)
C10_Total(field, n) ==
    IF n = 0 THEN 0
    ELSE C10_Total(field, n - 1)
         + (IF n \in C10_Team THEN arg.match_data.participants[n][field] ELSE 0)

\* v is 100 * part / total rounded to one decimal, held in tenths
C10_IsPct(v, part, total) ==
    /\ 2 * (v * total - 1000 * part) <= total
    /\ 2 * (1000 * part - v * total) <= total

C10_Metrics ==
    (entry = "compute_player_metrics" /\ pc = "done") =>
        LET m == Val(ret)
            me == arg.match_data.participants[arg.idx + 1]
            kills == C10_Total("kills", NumParts)
            dmg == C10_Total("totalDamageDealtToChampions", NumParts)
        IN /\ exc = None
           /\ \A f \in {"kda", "cs_per_min", "kill_participation_pct", "team_damage_share_pct"} :
                  m[f] # ZeroDivisionError
           /\ m.kill_participation_pct = None <=> kills = 0
           /\ m.team_damage_share_pct = None <=> dmg = 0
           /\ kills # 0 =>
                  C10_IsPct(Val(m.kill_participation_pct), me.kills + me.assists, kills)
           /\ dmg # 0 =>
                  C10_IsPct(Val(m.team_damage_share_pct), me.totalDamageDealtToChampions, dmg)

\* C10: compute_player_metrics never divides by zero: for every match and
\* target index kill_participation_pct is null exactly when the kills of the
\* target's team sum to 0 and team_damage_share_pct is null exactly when
\* the team's champion damage sums to 0; otherwise each is 100 times the
\* player's value over the team total (rounded to one decimal).
C10_NoDivisionByZero == C10_Metrics

\* A player with an assist in a team without kills: no kill participation.
C10_Witness ==
    /\ entry = "compute_player_metrics" /\ pc = "done"
    /\ C10_Total("kills", NumParts) = 0
    /\ arg.match_data.participants[arg.idx + 1].assists = 1
    /\ Val(ret).kill_participation_pct = None

\* ------------------------------------------------------------------ C11
\* the target's puuid and the positions of the timeline's list that hold it
C11_Puuid == arg.match_data.participants[arg.me_idx + 1].puuid
C11_Positions ==
    IF arg.timeline = None \/ C11_Puuid = None THEN {}
    ELSE {i \in 1..Len(Val(arg.timeline).participants) :
              Val(arg.timeline).participants[i] = Val(C11_Puuid)}

C11_Summary ==
    entry = "summarize_timeline" =>
        \* no step of summarize_timeline is stuck and none raises
        /\ pc # "done" => ENABLED NextTimeline
        /\ exc = None
        /\ pc = "done" =>
               IF C11_Positions = {}
               THEN Val(ret) = EmptySummary
               ELSE /\ ~Val(ret).empty
                    /\ arg.pid # None /\ Val(arg.pid) \in C11_Positions
                    /\ \A i \in C11_Positions : Val(arg.pid) <= i

\* C11: summarize_timeline returns the empty summary and raises nothing
\* whenever the target's puuid is not in the timeline's metadata participant
\* list (the timeline may be missing, the puuid too); otherwise the target's
\* participant id is the (first) position of the puuid in the list, counted
\* from 0, plus 1.
C11_EmptyWhenUnmapped == C11_Summary

\* A timeline whose list does not hold the target's puuid p3: empty summary.
C11_Witness ==
    /\ entry = "summarize_timeline" /\ pc = "done"
    /\ arg.timeline # None /\ arg.puuid = Some("p3") /\ Val(arg.timeline).frames # <<>>
    /\ Val(ret) = EmptySummary

\* ------------------------------------------------------------------ C12
C12_Having == {n \in 1..Len(arg.frames) : arg.pid \in DOMAIN arg.frames[n].pf}
C12_Dist(n) ==
    IF arg.frames[n].timestamp >= arg.min_mark * 60000
    THEN arg.frames[n].timestamp - arg.min_mark * 60000
    ELSE arg.min_mark * 60000 - arg.frames[n].timestamp

\* the nearest frame with a snapshot for the id, the earliest one on a tie
C12_Nearest ==
    CHOOSE n \in C12_Having :
        \A m \in C12_Having : C12_Dist(n) < C12_Dist(m) \/ (C12_Dist(n) = C12_Dist(m) /\ n <= m)

C12_Or0(o) == IF o = <<>> THEN 0 ELSE o[1]

\* C12 as stated: the CS or gold at minute M for a participant id comes from
\* the frame whose timestamp is nearest to M * 60000 ms among the frames that
\* hold a snapshot for the id, the earliest such frame winning a tie; it is
\* null only when no frame holds a snapshot for the id.
C12_ValueAtMinute ==
    (entry \in {"cs_at_min", "gold_at_min"} /\ pc = "done") =>
        IF C12_Having = {} THEN ret = None
        ELSE LET snap == arg.frames[C12_Nearest].pf[arg.pid]
             IN /\ ret # None
                /\ entry = "cs_at_min" =>
                       Val(ret) = C12_Or0(snap.minionsKilled) + C12_Or0(snap.jungleMinionsKilled)
                /\ entry = "gold_at_min" => Val(ret) = C12_Or0(snap.totalGold)

C12_IsEmpty(snap) ==
    snap.minionsKilled = <<>> /\ snap.jungleMinionsKilled = <<>> /\ snap.totalGold = <<>>

\* C12 (amended): the CS or gold at minute M for a participant id comes from
\* the frame whose timestamp is nearest to M * 60000 ms among the frames that
\* hold a snapshot for the id, the earliest such frame winning a tie (a key
\* the snapshot lacks counts 0); it is null only when no frame holds a
\* snapshot for the id or the snapshot of that nearest frame is empty.
C12_ValueAtMinuteOrEmpty ==
    (entry \in {"cs_at_min", "gold_at_min"} /\ pc = "done") =>
        IF C12_Having = {} THEN ret = None
        ELSE LET snap == arg.frames[C12_Nearest].pf[arg.pid]
             IN IF C12_IsEmpty(snap) THEN ret = None
                ELSE /\ ret # None
                     /\ entry = "cs_at_min" =>
                            Val(ret) = C12_Or0(snap.minionsKilled)
                                       + C12_Or0(snap.jungleMinionsKilled)
                     /\ entry = "gold_at_min" => Val(ret) = C12_Or0(snap.totalGold)

\* Frames at 9:00 and 11:00 both hold participant 1: minute 10 takes the CS
\* of the first, 50 + 1.
C12_Witness ==
    /\ entry = "cs_at_min" /\ pc = "done" /\ arg.min_mark = 10 /\ arg.pid = 1
    /\ Len(arg.frames) = 2
    /\ arg.frames[1].timestamp = 540000 /\ arg.frames[2].timestamp = 660000
    /\ ret = Some(51)

\* ------------------------------------------------------------------ C13
\* every event of the timeline, by frame and by position in the frame
C13_Events == AllEvents(Val(arg.timeline).frames)

\* the k-th smallest element of a set of positions
C13_Kth(S, k) == CHOOSE i \in S : Cardinality({j \in S : j <= i}) = k

\* list holds the minute-stamps of the events at the positions of S, in order
C13_StampsAre(list, S) ==
    /\ Len(list) = Cardinality(S)
    /\ \A k \in 1..Len(list) : list[k] = minutes_of(C13_Events[C13_Kth(S, k)].timestamp)

C13_Kills(pid) ==
    {i \in 1..Len(C13_Events) : C13_Events[i].type = "CHAMPION_KILL" /\ C13_Events[i].killerId = pid}
C13_Deaths(pid) ==
    {i \in 1..Len(C13_Events) : C13_Events[i].type = "CHAMPION_KILL" /\ C13_Events[i].victimId = pid}
C13_Assists(pid) ==
    {i \in 1..Len(C13_Events) : /\ C13_Events[i].type = "CHAMPION_KILL"
                                /\ pid \in C13_Events[i].assistingParticipantIds}

Summarized == entry = "summarize_timeline" /\ pc = "done" /\ arg.pid # None

\* C13 as stated: kills_at has one stamp per champion kill whose killer is
\* pid, deaths_at one per champion kill whose victim is pid, assists_count is
\* the number of champion kills whose assistants include pid; stamps come in
\* frame and event order.
C13_EventTallies ==
    Summarized =>
        /\ C13_StampsAre(Val(ret).kills_at, C13_Kills(Val(arg.pid)))
        /\ C13_StampsAre(Val(ret).deaths_at, C13_Deaths(Val(arg.pid)))
        /\ Val(ret).assists_count = Cardinality(C13_Assists(Val(arg.pid)))

\* C13 (amended): each champion kill counts once, as a kill before a death
\* before an assist: kills_at has one stamp per champion kill whose killer is
\* pid, deaths_at one per champion kill whose victim is pid and whose killer
\* is not, assists_count is the number of champion kills whose assistants
\* include pid and whose killer and victim are not pid; stamps come in frame
\* and event order.
C13_EventTalliesExclusive ==
    Summarized =>
        LET pid == Val(arg.pid)
        IN /\ C13_StampsAre(Val(ret).kills_at, C13_Kills(pid))
           /\ C13_StampsAre(Val(ret).deaths_at, C13_Deaths(pid) \ C13_Kills(pid))
           /\ Val(ret).assists_count
                  = Cardinality(C13_Assists(pid) \ (C13_Kills(pid) \cup C13_Deaths(pid)))

\* Participant 1 killed in the first frame and died in the second: one stamp
\* each, 8.0 and 10.1 minutes, and no assist.
C13_Witness ==
    /\ Summarized /\ arg.pid = Some(1) /\ Len(Val(arg.timeline).frames) = 2
    /\ Val(ret).kills_at = <<80>> /\ Val(ret).deaths_at = <<101>>
    /\ Val(ret).assists_count = 1

\* ------------------------------------------------------------------ C14
C14_Lane(p) == IF p.teamPosition # "" THEN p.teamPosition ELSE p.lane

\* C14: whenever compute_player_metrics returns an opp_idx, it is the index
\* of a participant of the other team whose lane is the target's, never the
\* target's own index, also when puuids are missing or repeated (so that the
\* gold differential of summarize_timeline is against an enemy).
C14_OpponentIsEnemy ==
    (entry = "compute_player_metrics" /\ pc = "done" /\ Val(ret).opp_idx # None) =>
        LET parts == arg.match_data.participants
            me == parts[arg.idx + 1]
            opp == parts[Val(Val(ret).opp_idx) + 1]
        IN /\ Val(Val(ret).opp_idx) # arg.idx
           /\ opp.teamId # me.teamId
           /\ C14_Lane(opp) = C14_Lane(me)

====
